---- MODULE Spec2Model ----
(***************************************************************************)
(* brics: a Brainfuck tokenizer (relex), program model, interpreter and C  *)
(* emitter.  Indices (instruction indices, loop bounds, the program        *)
(* pointer) are 0-based as in the Python source; TLA+ sequences are        *)
(* 1-based, so instruction idx is instructions[idx + 1].                   *)
(***************************************************************************)
EXTENDS Integers, Sequences, FiniteSets, TLC

\* ---------------------------------------------------------------- bounds

\* longest source text drawn from the full eight-character alphabet
MaxLen == 2
\* longest source text drawn from the bracket alphabet {"[", "]", "+"}
MaxBr == 5
\* longest standard-input stream
MaxIn == 1
\* tape length of the model (30000 in the source), small so that the tape
\* pointer wraps
TapeSize == 3
\* |data_ptr| is capped here so that a program that moves forever is finite
MaxPtr == 4
\* most characters written to standard output
MaxOut == 3
\* longest text handed to the tokenizer alone
MaxText == 4
\* most instructions a relex definition file leaves without a plain line
MaxMissing == 3
\* most lines a relex definition file has beside its plain directives
MaxNoise == 2
\* most instructions a run computed as a whole executes
MaxSteps == 1000
\* longest text tokenized with the relex of a definition file
MaxRelexText == 2

\* number of values of a cell: _ProcessMemory.standard_bf_memory
CellSize == 256

\* ---------------------------------------------------------------- helpers

Seqs(S, n) == UNION {[1..k -> S] : k \in 0..n}

Last(s) == s[Len(s)]

Front(s) == SubSeq(s, 1, Len(s) - 1)

\* Python's a % b for b > 0 (the result has the sign of b)
PyMod(a, b) == a % b

\* ---------------------------------------------------------------- instructions

Instruction ==
    {"Next", "Previous", "Add", "Subtract", "BeginLoop", "EndLoop", "Input", "Output"}

\* the end-of-program marker appended by Program.__init__
None == "None"

\* Instruction.from_char; None for any other string
from_char(char) ==
    CASE char = ">" -> "Next"
      [] char = "<" -> "Previous"
      [] char = "+" -> "Add"
      [] char = "-" -> "Subtract"
      [] char = "[" -> "BeginLoop"
      [] char = "]" -> "EndLoop"
      [] char = "," -> "Input"
      [] char = "." -> "Output"
      [] OTHER -> None

\* Instruction.to_char
to_char(instr) ==
    CASE instr = "Next" -> ">"
      [] instr = "Previous" -> "<"
      [] instr = "Add" -> "+"
      [] instr = "Subtract" -> "-"
      [] instr = "BeginLoop" -> "["
      [] instr = "EndLoop" -> "]"
      [] instr = "Input" -> ","
      [] instr = "Output" -> "."

\* ---------------------------------------------------------------- relex

\* An instruction_map is a Python dict, which iterates in insertion order:
\* a sequence of <<instruction, token>> pairs, a token being a sequence of
\* characters.

\* Relex.standard
standard ==
    << <<"Previous", <<"<">> >>,
       <<"Next", <<">">> >>,
       <<"Add", <<"+">> >>,
       <<"Subtract", <<"-">> >>,
       <<"Input", <<",">> >>,
       <<"Output", <<".">> >>,
       <<"BeginLoop", <<"[">> >>,
       <<"EndLoop", <<"]">> >> >>

\* _buf_peek: up to count characters from position pos (0-based), fewer at
\* the end of the text; the position is not moved
buf_peek(text, pos, count) ==
    SubSeq(text, pos + 1, IF pos + count <= Len(text) THEN pos + count ELSE Len(text))

\* the body of the for loop of text_to_instrs, from pair number i on: the
\* first pair whose token equals the peeked characters is yielded and the
\* cursor moves past it; when the loop runs out (for ... else) one character
\* is read and nothing is yielded
RECURSIVE scan_pairs(_, _, _, _)
scan_pairs(map, text, pos, i) ==
    IF i > Len(map)
    THEN [yield |-> <<>>, read |-> 1]
    ELSE LET instr_enum == map[i][1]
             instr_text == map[i][2]
             len_instr_text == Len(instr_text)
             value == buf_peek(text, pos, len_instr_text)
         IN IF value = instr_text
            THEN [yield |-> <<instr_enum>>, read |-> len_instr_text]
            ELSE scan_pairs(map, text, pos, i + 1)

\* mutant: a matched token is yielded but only one character is read
lex_step_read_one(map, text, pos) ==
    [yield |-> scan_pairs(map, text, pos, 1).yield, read |-> 1]

\* one iteration of the while loop of text_to_instrs at cursor pos
lex_step(map, text, pos) == scan_pairs(map, text, pos, 1)

\* mutant: reading leaves the cursor where it is
buf_read_stay(text, pos, n) == pos

\* text.read(n): the cursor after reading n characters (never past the end)
buf_read(text, pos, n) == IF pos + n <= Len(text) THEN pos + n ELSE Len(text)

\* Relex.text_to_instrs, run to exhaustion from cursor pos
RECURSIVE text_to_instrs_from(_, _, _)
text_to_instrs_from(map, text, pos) ==
    IF buf_peek(text, pos, 1) = <<>>
    THEN <<>>
    ELSE LET s == lex_step(map, text, pos)
         IN s.yield \o text_to_instrs_from(map, text, buf_read(text, pos, s.read))

text_to_instrs(map, text) == text_to_instrs_from(map, text, 0)

\* ---------------------------------------------------------------- relex definition files

\* the characters str.strip() removes by default, among those of the model
Whitespace == {" ", "\t", "\n"}

RECURSIVE lstrip(_)
lstrip(s) == IF s # <<>> /\ Head(s) \in Whitespace THEN lstrip(Tail(s)) ELSE s

RECURSIVE rstrip(_)
rstrip(s) == IF s # <<>> /\ Last(s) \in Whitespace THEN rstrip(Front(s)) ELSE s

\* str.strip()
strip(s) == rstrip(lstrip(s))

\* str.startswith(c) for a single character c
startswith(s, c) == s # <<>> /\ Head(s) = c

\* mutant: the split is at the first whitespace character of any kind
partition_whitespace(s, sep) ==
    LET found == {i \in 1 .. Len(s) : s[i] \in Whitespace}
    IN IF found = {}
       THEN <<s, <<>>, <<>>>>
       ELSE LET i == CHOOSE j \in found : \A k \in found : j <= k
            IN <<SubSeq(s, 1, i - 1), <<s[i]>>, SubSeq(s, i + 1, Len(s))>>

\* str.partition(sep) for a single character sep: the part before the
\* first occurrence, the separator, the part after; without an occurrence
\* the string and two empty strings
partition(s, sep) ==
    LET found == {i \in 1 .. Len(s) : s[i] = sep}
    IN IF found = {}
       THEN <<s, <<>>, <<>>>>
       ELSE LET i == CHOOSE j \in found : \A k \in found : j <= k
            IN <<SubSeq(s, 1, i - 1), <<sep>>, SubSeq(s, i + 1, Len(s))>>

\* Instruction.from_char on a string of any length: only a string of one
\* character can name an instruction
from_char_str(s) == IF Len(s) = 1 THEN from_char(s[1]) ELSE None

\* RelexParsingError(line, message); line is <<>> for None and <<n>> for
\* the number n, message the fixed text and the part formatted into it
RelexParsingError(line, text, detail) ==
    [kind |-> "RelexParsingError", line |-> line,
     message |-> [text |-> text, detail |-> detail]]

\* mutant: a key already present is removed and set again, so it goes last
instr_map_set_moved_last(instr_map, instr, token) ==
    Append(SelectSeq(instr_map, LAMBDA entry : entry[1] # instr), <<instr, token>>)

\* mutant: a key already present keeps its first value
instr_map_set_default(instr_map, instr, token) ==
    IF \E i \in DOMAIN instr_map : instr_map[i][1] = instr
    THEN instr_map
    ELSE Append(instr_map, <<instr, token>>)

\* instr_map[instr] = token on a dict: a key already present keeps its
\* position and takes the new value, a new key goes last
instr_map_set(instr_map, instr, token) ==
    IF \E i \in DOMAIN instr_map : instr_map[i][1] = instr
    THEN [i \in DOMAIN instr_map |->
             IF instr_map[i][1] = instr THEN <<instr, token>> ELSE instr_map[i]]
    ELSE Append(instr_map, <<instr, token>>)

\* the condition of the generator parsed_lines (relex.py lines 71 and 72)
is_parsed_line(line) == ~ startswith(strip(line), "#") /\ Len(strip(line)) # 0

\* mutant: the lines are numbered after the blank and comment lines are
\* filtered out
line_number_filtered(lines, idx) ==
    Cardinality({i \in 1 .. idx + 1 : is_parsed_line(lines[i])})

\* the line number an error raised for enumerate's index idx carries: idx + 1
line_number(lines, idx) == idx + 1

\* the for loop of from_relex_file over parsed_lines, from enumerate's
\* index idx on: the first error raised, or the instr_map filled
RECURSIVE parse_lines(_, _, _)
parse_lines(lines, idx, instr_map) ==
    IF idx >= Len(lines)
    THEN [kind |-> "instr_map", instr_map |-> instr_map]
    ELSE IF ~ is_parsed_line(lines[idx + 1])
         THEN parse_lines(lines, idx + 1, instr_map)
         ELSE LET line == partition(strip(lines[idx + 1]), " ")
                  standard_instr == line[1]
                  relex_instr == line[3]
                  joined == line[1] \o line[2] \o line[3]
              IN IF Len(strip(relex_instr)) = 0
                 THEN RelexParsingError(<<line_number(lines, idx)>>,
                                        "Missing relex value", joined)
                 ELSE IF from_char_str(standard_instr) = None
                      THEN RelexParsingError(<<line_number(lines, idx)>>,
                               "Attempted to map to unknown instruction key", joined)
                      ELSE parse_lines(lines, idx + 1,
                               instr_map_set(instr_map, from_char_str(standard_instr),
                                             strip(relex_instr)))

\* ord(c) of the canonical characters
ord(c) ==
    CASE c = "+" -> 43
      [] c = "," -> 44
      [] c = "-" -> 45
      [] c = "." -> 46
      [] c = "<" -> 60
      [] c = ">" -> 62
      [] c = "[" -> 91
      [] c = "]" -> 93

\* mutant: the characters are listed in descending order
RECURSIVE sorted_descending(_)
sorted_descending(chars) ==
    IF chars = {}
    THEN <<>>
    ELSE LET c == CHOOSE x \in chars : \A y \in chars : ord(x) >= ord(y)
         IN <<c>> \o sorted_descending(chars \ {c})

\* sorted() of a set of one-character strings, each formatted between
\* quotes: ascending by code point
RECURSIVE sorted(_)
sorted(chars) ==
    IF chars = {}
    THEN <<>>
    ELSE LET c == CHOOSE x \in chars : \A y \in chars : ord(x) <= ord(y)
         IN <<c>> \o sorted(chars \ {c})

\* Relex.__init__: the exhaustiveness check on the instruction_map
relex_init(instruction_map) ==
    LET missing == Instruction \ {instruction_map[i][1] : i \in DOMAIN instruction_map}
    IN IF missing # {}
       THEN RelexParsingError(<<>>,
                "Relex definition is inexhaustive, missing instruction(s)",
                sorted({to_char(instr) : instr \in missing}))
       ELSE [kind |-> "Relex", instruction_map |-> instruction_map]

\* ---------------------------------------------------------------- program

\* mutant: the index is reported 1-based
ParsingError_one_based(idx, message) ==
    [kind |-> "ParsingError", char |-> idx + 1, message |-> message]

\* a raised ParsingError(char, message)
ParsingError(idx, message) == [kind |-> "ParsingError", char |-> idx, message |-> message]

\* mutant: the stack is popped from the wrong end
stack_pop_oldest(stack) == [value |-> Head(stack), rest |-> Tail(stack)]

\* list.pop() of the stack of pending BeginLoop indices: the last element
stack_pop(stack) == [value |-> Last(stack), rest |-> Front(stack)]

\* min(output, key=lambda t: t[0], default=None): the pair with the least
\* left index (the left indices of a scan are distinct)
min_by_left(output) ==
    IF output = {}
    THEN [kind |-> "none"]
    ELSE [kind |-> "pair",
          pair |-> CHOOSE t \in output : \A u \in output : t[1] <= u[1]]

\* Program._make_or_get_first_bounds from index idx on, with the pairs found
\* (output) and the pending BeginLoop indices (stack) so far.  The result is
\* a raised ParsingError, or [kind |-> "set", bounds], or, with get_first,
\* [kind |-> "pair", pair] or [kind |-> "none"].
RECURSIVE bounds_scan(_, _, _, _, _)
bounds_scan(instrs, idx, output, stack, get_first) ==
    IF idx >= Len(instrs) \/ instrs[idx + 1] = None
    THEN IF Len(stack) # 0
         THEN ParsingError(stack_pop(stack).value, "Unmatched [ instruction")
         ELSE IF get_first
              THEN [kind |-> "none"]
              ELSE [kind |-> "set", bounds |-> output]
    ELSE CASE instrs[idx + 1] = "BeginLoop" ->
                bounds_scan(instrs, idx + 1, output, Append(stack, idx), get_first)
           [] instrs[idx + 1] = "EndLoop" ->
                IF Len(stack) = 0
                THEN ParsingError(idx, "Unmatched ] instruction")
                ELSE LET p == stack_pop(stack)
                         out == output \cup {<<p.value, idx>>}
                     IN IF get_first /\ Len(p.rest) = 0
                        THEN min_by_left(out)
                        ELSE bounds_scan(instrs, idx + 1, out, p.rest, get_first)
           [] OTHER -> bounds_scan(instrs, idx + 1, output, stack, get_first)

make_or_get_first_bounds(instrs, get_first) == bounds_scan(instrs, 0, {}, <<>>, get_first)

\* Program._make_bounds
make_bounds(instrs) == make_or_get_first_bounds(instrs, FALSE)

\* Program._get_first_bounds
get_first_bounds(instrs) == make_or_get_first_bounds(instrs, TRUE)

\* mutant: the slice starts one instruction too late
trim_slice_late(instrs, ri) == SubSeq(instrs, ri + 3, Len(instrs))

\* mutant: the slice starts at the EndLoop of the header
trim_slice_keep_end(instrs, ri) == SubSeq(instrs, ri + 1, Len(instrs))

\* mutant: nothing is sliced off
trim_slice_nothing(instrs, ri) == instrs

\* the slice instrs[ri + 1 :] of _trim_header_once
trim_slice(instrs, ri) == SubSeq(instrs, ri + 2, Len(instrs))

\* _trim_header_once on instrs: the ParsingError of the scan, or the
\* instructions it leaves and the boolean it returns
trim_header_once(instrs) ==
    LET result == get_first_bounds(instrs)
    IN IF result.kind = "ParsingError"
       THEN result
       ELSE IF result.kind = "none" \/ result.pair[1] # 0
            THEN [kind |-> "trimmed", instructions |-> instrs, returned |-> FALSE]
            ELSE [kind |-> "trimmed",
                  instructions |-> trim_slice(instrs, result.pair[2]),
                  returned |-> TRUE]

\* _trim_headers on instrs: _trim_header_once until it returns False
RECURSIVE trim_headers(_)
trim_headers(instrs) ==
    LET once == trim_header_once(instrs)
    IN IF once.kind = "ParsingError"
       THEN once
       ELSE IF once.returned THEN trim_headers(once.instructions) ELSE once

\* Program.__init__ from line 136 on, on the tokenized instructions: the
\* ParsingError raised, or the instructions and loop_boundaries of the
\* Program
program_init(instrs, opt) ==
    LET trimmed == IF opt
                   THEN trim_headers(instrs)
                   ELSE [kind |-> "trimmed", instructions |-> instrs, returned |-> FALSE]
    IN IF trimmed.kind = "ParsingError"
       THEN trimmed
       ELSE LET result == make_bounds(trimmed.instructions)
            IN IF result.kind = "ParsingError"
               THEN result
               ELSE [kind |-> "Program",
                     instructions |-> trimmed.instructions,
                     loop_boundaries |-> result.bounds]

\* mutant: only the left member of a pair is looked up
get_other_bound_left_only(bounds, idx) == {t[2] : t \in {u \in bounds : u[1] = idx}}

\* the results Program.get_other_bound(idx) can return over the iteration
\* orders of the set of pairs: for each pair, right if left = idx, else left
\* if right = idx; the first pair that answers is returned.  Empty: the
\* lookup raises BfRuntimeError.
get_other_bound(bounds, idx) ==
    {IF t[1] = idx THEN t[2] ELSE t[1] : t \in {u \in bounds : u[1] = idx \/ u[2] = idx}}

\* ---------------------------------------------------------------- memory

\* _ProcessMemory._data is a dict: a function whose domain is the set of
\* keys present.  {} is the function with the empty domain.
EmptyDict == <<>>

dict_set(d, k, v) == [x \in DOMAIN d \cup {k} |-> IF x = k THEN v ELSE d[x]]

dict_del(d, k) == [x \in DOMAIN d \ {k} |-> d[x]]

\* _ProcessMemory.__getitem__
mem_getitem(d, idx) ==
    (IF PyMod(idx, TapeSize) \in DOMAIN d THEN d[PyMod(idx, TapeSize)] ELSE 0) % CellSize

\* mutant: the index is stored as given, without wrapping
mem_setitem_no_wrap(d, idx, val) ==
    LET stored == dict_set(d, idx, PyMod(val, CellSize))
    IN IF val = 0 THEN dict_del(stored, idx) ELSE stored

\* mutant: the value saturates at the ends of the cell range
mem_setitem_clamped(d, idx, val) ==
    LET clamped == IF val < 0 THEN 0 ELSE IF val >= CellSize THEN CellSize - 1 ELSE val
        stored == dict_set(d, PyMod(idx, TapeSize), clamped)
    IN IF val = 0 THEN dict_del(stored, PyMod(idx, TapeSize)) ELSE stored

\* _ProcessMemory.__setitem__
mem_setitem(d, idx, val) ==
    LET stored == dict_set(d, PyMod(idx, TapeSize), PyMod(val, CellSize))
    IN IF val = 0 THEN dict_del(stored, PyMod(idx, TapeSize)) ELSE stored

\* ---------------------------------------------------------------- disassembler

\* int(log10(n)) + 1 for n >= 1: the number of decimal digits of n
RECURSIVE digits(_)
digits(n) == IF n < 10 THEN 1 ELSE 1 + digits(n \div 10)

\* _get_max_width on a non-empty collection of integers: math.log10 raises
\* ValueError (math domain error) for an argument that is not positive
get_max_width(source) ==
    LET m == CHOOSE x \in source : \A y \in source : x >= y
    IN IF m <= 0
       THEN [kind |-> "ValueError", message |-> "math domain error"]
       ELSE [kind |-> "int", value |-> digits(m)]

\* sorted() of a set of pairs: ascending by the first member, then by the
\* second
RECURSIVE sorted_pairs(_)
sorted_pairs(bounds) ==
    IF bounds = {}
    THEN <<>>
    ELSE LET b == CHOOSE x \in bounds :
                      \A y \in bounds : x[1] < y[1] \/ (x[1] = y[1] /\ x[2] <= y[2])
         IN <<b>> \o sorted_pairs(bounds \ {b})

\* indent_level when the line of instrs[idx] is written: the BeginLoops
\* before it less the EndLoops up to it
indent_level(instrs, idx) ==
    Cardinality({i \in 1 .. idx : instrs[i] = "BeginLoop"})
    - Cardinality({i \in 1 .. idx + 1 : instrs[i] = "EndLoop"})

\* the lines of the Instructions section of _disassemble_readable
readable_instructions(instrs) ==
    [i \in DOMAIN instrs |->
        [index |-> i - 1,
         width |-> get_max_width({Len(instrs)}).value,
         indent |-> indent_level(instrs, i - 1),
         name |-> instrs[i]]]

\* the array "instruction" of _disassemble_json: the sentinel is left out
RECURSIVE json_instructions(_, _)
json_instructions(instrs, idx) ==
    IF idx >= Len(instrs)
    THEN <<>>
    ELSE (IF instrs[idx + 1] = None
          THEN <<>>
          ELSE <<[index |-> idx, instruction |-> instrs[idx + 1]]>>)
         \o json_instructions(instrs, idx + 1)

\* the entries of a loop-index listing, in order
loop_entries(bounds) ==
    LET pairs == sorted_pairs(bounds)
    IN [i \in DOMAIN pairs |-> [left |-> pairs[i][1], right |-> pairs[i][2]]]

\* ---------------------------------------------------------------- main

\* mutant: main does not catch BfRuntimeGracefulExit
main_exit_status_uncaught(exc) ==
    CASE exc \in {"return", "KeyboardInterrupt"} -> 0
      [] OTHER -> 1

\* the exit status main() ends with, by the exception that reaches it
\* ("return": none); anything main does not catch ends in a traceback
main_exit_status(exc) ==
    CASE exc \in {"return", "KeyboardInterrupt", "BfRuntimeGracefulExit"} -> 0
      [] OTHER -> 1

\* ---------------------------------------------------------------- state

VARIABLES
    text,             \* the source text, a sequence of characters
    relex,            \* the instruction_map of the Relex in use
    optimise,         \* the optimise flag
    stdin,            \* the characters standard input holds
    file,             \* the lines of the relex definition file
    pc,               \* where the interpreter process is
    pos,              \* tokenizer: the read cursor in text
    yielded,          \* tokenizer: the instructions yielded so far
    instructions,     \* Program.instructions
    loop_boundaries,  \* Program.loop_boundaries
    error,            \* the exception that ended the process, if any
    exit_status,      \* the exit status of the process, once it has ended
    program_ptr,      \* run_program: program_ptr
    data,             \* run_program: data._data
    data_ptr,         \* run_program: data_ptr
    in_pos,           \* characters of stdin read so far
    out,              \* the characters written to standard output
    listing,          \* what the disassembler wrote to standard output
    c_pc,             \* where the compiled program is
    c_code,           \* the statements compile_to_c emitted
    c_i,              \* compiled program: the statement to execute next
    c_mem,            \* compiled program: mem
    c_ptr,            \* compiled program: ptr
    c_in,             \* compiled program: characters of stdin read so far
    c_out             \* compiled program: the bytes written to standard output

inputs == <<text, relex, optimise, stdin, file>>
lexv == <<pos, yielded>>
progv == <<instructions, loop_boundaries>>
endv == <<error, exit_status>>
runv == <<program_ptr, data, data_ptr, in_pos, out>>
cv == <<c_pc, c_code, c_i, c_mem, c_ptr, c_in, c_out>>
disv == <<listing>>
vars == <<inputs, pc, lexv, progv, endv, runv, cv, disv>>

NoError == [kind |-> "none"]

\* nothing written by the disassembler
NoListing == [format |-> "none"]

\* the characters of the standard relex
Chars == {">", "<", "+", "-", "[", "]", ",", "."}

BracketChars == {"[", "]", "+"}

\* the values read from standard input
InChars == {0, 65}

Examples ==
    { <<"+", "+", "+", "+", "[", "-", "-", "[", "-", "]", "]", ".">>,
      <<"[", "x", "]", ",", "[", ".", ",", "]">>,
      <<"[", "-", "]", "+", "[", "-", "]", ".">>,
      <<",", "+", ".">>,
      <<"-", ".", ",", ".">>,
      <<"+", "[", ">", "+", "]">>,
      <<"+", "[", "<", "+", "]">>,
      <<"<", "+", "[", ">", "]", ".">>,
      <<"+", "[", ".", "-", "]">> }

Programs == Seqs(Chars, MaxLen) \cup Seqs(BracketChars, MaxBr) \cup Examples

InitRest ==
    /\ pos = 0
    /\ yielded = <<>>
    /\ instructions = <<>>
    /\ loop_boundaries = {}
    /\ error = NoError
    /\ exit_status = "none"
    /\ program_ptr = 0
    /\ data = EmptyDict
    /\ data_ptr = 0
    /\ in_pos = 0
    /\ out = <<>>
    /\ listing = NoListing
    /\ c_pc = "none"
    /\ c_code = <<>>
    /\ c_i = 0
    /\ c_mem = EmptyDict
    /\ c_ptr = 0
    /\ c_in = 0
    /\ c_out = <<>>

Init ==
    /\ text \in Programs
    /\ relex = standard
    /\ optimise \in BOOLEAN
    /\ stdin \in Seqs(InChars, MaxIn)
    /\ file = <<>>
    /\ pc = "new"
    /\ InitRest

\* ---------------------------------------------------------------- Program.__init__

\* a ParsingError reaches main: the process ends
Raise(exc) ==
    /\ pc' = exc.kind
    /\ error' = exc
    /\ exit_status' = main_exit_status(exc.kind)

\* program.py line 135: the text is tokenized and the sentinel appended
ProgramInit ==
    /\ pc = "new"
    /\ instructions' = text_to_instrs(relex, text) \o <<None>>
    /\ pc' = IF optimise THEN "trim" ELSE "bounds"
    /\ UNCHANGED <<inputs, disv, lexv, loop_boundaries, endv, runv, cv>>

\* one iteration of the loop of _trim_headers: _trim_header_once
TrimHeaderOnce ==
    /\ pc = "trim"
    /\ LET once == trim_header_once(instructions)
       IN IF once.kind = "ParsingError"
          THEN Raise(once) /\ UNCHANGED instructions
          ELSE /\ instructions' = once.instructions
               /\ pc' = IF once.returned THEN "trim" ELSE "bounds"
               /\ UNCHANGED endv
    /\ UNCHANGED <<inputs, disv, lexv, loop_boundaries, runv, cv>>

\* program.py line 139: the loop boundaries are made, or construction fails
MakeBounds ==
    /\ pc = "bounds"
    /\ LET result == make_bounds(instructions)
       IN IF result.kind = "ParsingError"
          THEN Raise(result) /\ UNCHANGED loop_boundaries
          ELSE /\ loop_boundaries' = result.bounds
               /\ pc' = "ready"
               /\ UNCHANGED endv
    /\ UNCHANGED <<inputs, disv, lexv, instructions, runv, cv>>

\* ---------------------------------------------------------------- run_program

\* program.instructions[program_ptr] of a Python tuple: a negative index
\* counts from the end, an index out of range raises IndexError
fetch(instrs, ptr) ==
    IF ptr >= Len(instrs) \/ ptr < 0 - Len(instrs)
    THEN "IndexError"
    ELSE IF ptr >= 0 THEN instrs[ptr + 1] ELSE instrs[Len(instrs) + ptr + 1]

\* the instruction run_program executes next
instruction == fetch(instructions, program_ptr)

\* data[data_ptr]
cell == mem_getitem(data, data_ptr)

\* process.py line 145: program_ptr += 1
advance(ptr) == ptr + 1

\* mutant: the guards of the two loop cases are swapped
loop_jump_swapped(instr, val, bounds, ptr) ==
    IF (instr = "BeginLoop" /\ val # 0) \/ (instr = "EndLoop" /\ val = 0)
    THEN get_other_bound(bounds, ptr)
    ELSE {ptr}

\* the values program_ptr can have after a BeginLoop or EndLoop case
\* (process.py lines 135 to 138): the other bound when the case's guard
\* holds, else no case matches and program_ptr is kept.  Empty: the lookup
\* raised BfRuntimeError.
loop_jump(instr, val, bounds, ptr) ==
    IF (instr = "BeginLoop" /\ val = 0) \/ (instr = "EndLoop" /\ val # 0)
    THEN get_other_bound(bounds, ptr)
    ELSE {ptr}

\* sys.stdin.read(1): the next character of standard input, as a sequence
\* of length 1, or the empty sequence at the end of input
stdin_read(chars, n) == SubSeq(chars, n + 1, IF n + 1 <= Len(chars) THEN n + 1 ELSE Len(chars))

\* the bytes sys.stdout.write(chr(val)) puts on standard output for each
\* character written, under the UTF-8 encoding sys.stdout has by default: one
\* byte below 128, two bytes from 128 to 255
RECURSIVE stdout_bytes(_)
stdout_bytes(chars) ==
    IF chars = <<>>
    THEN <<>>
    ELSE (IF Head(chars) < 128
          THEN <<Head(chars)>>
          ELSE <<192 + (Head(chars) \div 64), 128 + (Head(chars) % 64)>>)
         \o stdout_bytes(Tail(chars))

\* a BfRuntimeError leaves run_program; main does not catch it
RaiseRuntime(idx, message) ==
    /\ pc' = "BfRuntimeError"
    /\ error' = [kind |-> "BfRuntimeError", char |-> idx, message |-> message]
    /\ exit_status' = main_exit_status("BfRuntimeError")

\* process.py lines 112 to 115: main calls run_program on the program
RunProgram ==
    /\ pc = "ready"
    /\ pc' = "run"
    /\ program_ptr' = 0
    /\ data' = EmptyDict
    /\ data_ptr' = 0
    /\ UNCHANGED <<inputs, disv, lexv, progv, endv, in_pos, out, cv>>

ExecNext ==
    /\ pc = "run" /\ instruction = "Next"
    /\ data_ptr < MaxPtr
    /\ data_ptr' = data_ptr + 1
    /\ program_ptr' = advance(program_ptr)
    /\ UNCHANGED <<inputs, disv, pc, lexv, progv, endv, data, in_pos, out, cv>>

ExecPrevious ==
    /\ pc = "run" /\ instruction = "Previous"
    /\ data_ptr > 0 - MaxPtr
    /\ data_ptr' = data_ptr - 1
    /\ program_ptr' = advance(program_ptr)
    /\ UNCHANGED <<inputs, disv, pc, lexv, progv, endv, data, in_pos, out, cv>>

ExecAdd ==
    /\ pc = "run" /\ instruction = "Add"
    /\ data' = mem_setitem(data, data_ptr, cell + 1)
    /\ program_ptr' = advance(program_ptr)
    /\ UNCHANGED <<inputs, disv, pc, lexv, progv, endv, data_ptr, in_pos, out, cv>>

ExecSubtract ==
    /\ pc = "run" /\ instruction = "Subtract"
    /\ data' = mem_setitem(data, data_ptr, cell - 1)
    /\ program_ptr' = advance(program_ptr)
    /\ UNCHANGED <<inputs, disv, pc, lexv, progv, endv, data_ptr, in_pos, out, cv>>

\* the BeginLoop and EndLoop cases of the match statement, and the advance
LoopCase ==
    /\ LET targets == loop_jump(instruction, cell, loop_boundaries, program_ptr)
       IN IF targets = {}
          THEN RaiseRuntime(program_ptr, "Bound lookup failed") /\ UNCHANGED program_ptr
          ELSE /\ \E t \in targets : program_ptr' = advance(t)
               /\ UNCHANGED <<pc, endv>>
    /\ UNCHANGED <<inputs, disv, lexv, progv, data, data_ptr, in_pos, out, cv>>

ExecBeginLoop ==
    /\ pc = "run" /\ instruction = "BeginLoop"
    /\ LoopCase

ExecEndLoop ==
    /\ pc = "run" /\ instruction = "EndLoop"
    /\ LoopCase

\* _input returns ord(byte); at the end of input it raises BfRuntimeGracefulExit, which main
\* catches: the process ends with status 0
ExecInput ==
    /\ pc = "run" /\ instruction = "Input"
    /\ LET byte == stdin_read(stdin, in_pos)
       IN IF Len(byte) # 1
          THEN /\ pc' = "graceful"
               /\ exit_status' = main_exit_status("BfRuntimeGracefulExit")
               /\ UNCHANGED <<error, program_ptr, data, in_pos>>
          ELSE /\ data' = mem_setitem(data, data_ptr, byte[1])
               /\ in_pos' = in_pos + 1
               /\ program_ptr' = advance(program_ptr)
               /\ UNCHANGED <<pc, endv>>
    /\ UNCHANGED <<inputs, disv, lexv, progv, data_ptr, out, cv>>

\* _output writes chr(val)
ExecOutput ==
    /\ pc = "run" /\ instruction = "Output"
    /\ Len(out) < MaxOut
    /\ out' = Append(out, cell)
    /\ program_ptr' = advance(program_ptr)
    /\ UNCHANGED <<inputs, disv, pc, lexv, progv, endv, data, data_ptr, in_pos, cv>>

\* the sentinel ends the run and main returns; a program pointer out of
\* range raises BfRuntimeError
ExecEnd ==
    /\ pc = "run" /\ instruction \in {None, "IndexError"}
    /\ IF instruction = "IndexError"
       THEN RaiseRuntime(program_ptr, "Program pointer out-of-bounds")
       ELSE /\ pc' = "exit"
            /\ exit_status' = main_exit_status("return")
            /\ UNCHANGED error
    /\ UNCHANGED <<inputs, disv, lexv, progv, runv, cv>>

\* one iteration of the loop of run_program on a state st of the run: how
\* it has ended ("running": it has not; "exit" at the sentinel, "graceful"
\* at the end of input, "BfRuntimeError"), its pointers and tape, what it
\* has read and written.  The caps of the step actions end it as "capped".
run_program_step(instrs, bounds, chars, st) ==
    LET instr == fetch(instrs, st.program_ptr)
        val == mem_getitem(st.data, st.data_ptr)
        ended(how) == [st EXCEPT !.end = how]
        next(after) == [after EXCEPT !.program_ptr = advance(after.program_ptr)]
    IN CASE instr = "IndexError" -> ended("BfRuntimeError")
         [] instr = None -> ended("exit")
         [] instr = "Next" ->
                IF st.data_ptr >= MaxPtr
                THEN ended("capped")
                ELSE next([st EXCEPT !.data_ptr = st.data_ptr + 1])
         [] instr = "Previous" ->
                IF st.data_ptr <= 0 - MaxPtr
                THEN ended("capped")
                ELSE next([st EXCEPT !.data_ptr = st.data_ptr - 1])
         [] instr = "Add" ->
                next([st EXCEPT !.data = mem_setitem(st.data, st.data_ptr, val + 1)])
         [] instr = "Subtract" ->
                next([st EXCEPT !.data = mem_setitem(st.data, st.data_ptr, val - 1)])
         [] instr \in {"BeginLoop", "EndLoop"} ->
                LET targets == loop_jump(instr, val, bounds, st.program_ptr)
                IN IF targets = {}
                   THEN ended("BfRuntimeError")
                   ELSE next([st EXCEPT !.program_ptr = CHOOSE t \in targets : TRUE])
         [] instr = "Input" ->
                LET byte == stdin_read(chars, st.in_pos)
                IN IF Len(byte) # 1
                   THEN ended("graceful")
                   ELSE next([st EXCEPT
                                 !.data = mem_setitem(st.data, st.data_ptr, byte[1]),
                                 !.in_pos = st.in_pos + 1])
         [] instr = "Output" ->
                IF Len(st.out) >= MaxOut
                THEN ended("capped")
                ELSE next([st EXCEPT !.out = Append(st.out, val)])

\* the loop of run_program for at most n iterations from the state st, the
\* iterations split in two halves
RECURSIVE run_program_loop(_, _, _, _, _)
run_program_loop(instrs, bounds, chars, st, n) ==
    IF st.end # "running" \/ n = 0
    THEN st
    ELSE IF n = 1
         THEN run_program_step(instrs, bounds, chars, st)
         ELSE run_program_loop(instrs, bounds, chars,
                               run_program_loop(instrs, bounds, chars, st, n \div 2),
                               n - (n \div 2))

\* run_program on a Program, from its first instruction and an empty tape,
\* for at most MaxSteps iterations: how it ends, what it has written and
\* how much it has read
run_program(program, chars) ==
    LET st == run_program_loop(program.instructions, program.loop_boundaries, chars,
                               [end |-> "running", program_ptr |-> 0, data |-> EmptyDict,
                                data_ptr |-> 0, in_pos |-> 0, out |-> <<>>],
                               MaxSteps)
    IN [end |-> st.end, out |-> st.out, in_pos |-> st.in_pos]

\* ---------------------------------------------------------------- compile_to_c

\* _instr_to_c_statement
instr_to_c_statement(instr) ==
    CASE instr = "Next" -> "ptr = MOD(ptr + 1, MEMORY_LENGTH);"
      [] instr = "Previous" -> "ptr = MOD(ptr - 1, MEMORY_LENGTH);"
      [] instr = "Add" -> "mem[ptr]++;"
      [] instr = "Subtract" -> "mem[ptr]--;"
      [] instr = "Input" -> "mem[ptr] = getchar();"
      [] instr = "Output" -> "putchar(mem[ptr]);"
      [] instr = "BeginLoop" -> "while (mem[ptr]) {"
      [] instr = "EndLoop" -> "};"

\* the statements compile_to_c writes, in order: one for each instruction
\* that is not None
RECURSIVE emit_statements(_)
emit_statements(instrs) ==
    IF instrs = <<>>
    THEN <<>>
    ELSE (IF Head(instrs) = None THEN <<>> ELSE <<instr_to_c_statement(Head(instrs))>>)
         \o emit_statements(Tail(instrs))

\* ---------------------------------------------------------------- the emitted program

\* The emitted program is modelled by the C semantics of its statements.
\* mem is a local array without initializer: a cell not yet written holds an
\* indeterminate value, drawn from UninitVals when it is first read.

UninitVals == {0, 1}

\* EOF of <stdio.h>
C_EOF == 0 - 1

\* the macro MOD(a, b) (a % b + b) % b expanded on the argument text a1 op a2
\* (a1 + a2 or a1 - a2, sign = 1 or -1) and b: a1 op a2 % b + b, all % b
c_MOD(a1, sign, a2, b) == (a1 + sign * (a2 % b) + b) % b

\* conversion of an int to char, seen as the byte stored
c_char(v) == v % 256

\* the values a read of mem[i] can give
c_load(m, i) == IF i \in DOMAIN m THEN {m[i]} ELSE UninitVals

\* getchar()
c_getchar(chars, n) == IF n < Len(chars) THEN chars[n + 1] ELSE C_EOF

\* the index of the "};" closing the block opened before statement j, depth
\* blocks being open inside it
RECURSIVE c_block_end(_, _, _)
c_block_end(code, j, depth) ==
    CASE code[j + 1] = "};" ->
            IF depth = 0 THEN j ELSE c_block_end(code, j + 1, depth - 1)
      [] code[j + 1] = "while (mem[ptr]) {" -> c_block_end(code, j + 1, depth + 1)
      [] OTHER -> c_block_end(code, j + 1, depth)

\* the index of the while statement opening the block closed after statement j
RECURSIVE c_block_begin(_, _, _)
c_block_begin(code, j, depth) ==
    CASE code[j + 1] = "while (mem[ptr]) {" ->
            IF depth = 0 THEN j ELSE c_block_begin(code, j - 1, depth - 1)
      [] code[j + 1] = "};" -> c_block_begin(code, j - 1, depth + 1)
      [] OTHER -> c_block_begin(code, j - 1, depth)

\* the statement the emitted program executes next
c_statement == IF c_i < Len(c_code) THEN c_code[c_i + 1] ELSE "}"

\* main calls compile_to_c on the program: the second run of the process, on
\* the same program, after the interpreter's run has ended
CompileToC ==
    /\ pc \in {"exit", "graceful"} /\ c_pc = "none"
    /\ c_code' = emit_statements(instructions)
    /\ c_pc' = "compiled"
    /\ UNCHANGED <<inputs, disv, pc, lexv, progv, endv, runv, c_i, c_mem, c_ptr, c_in, c_out>>

\* the emitted program starts, on the same standard input: char mem[...];
\* int ptr = 0;
CStart ==
    /\ c_pc = "compiled"
    /\ c_pc' = "run"
    /\ c_i' = 0
    /\ c_mem' = EmptyDict
    /\ c_ptr' = 0
    /\ c_in' = 0
    /\ c_out' = <<>>
    /\ UNCHANGED <<inputs, disv, pc, lexv, progv, endv, runv, c_code>>

CMove ==
    /\ c_pc = "run"
    /\ \/ /\ c_statement = "ptr = MOD(ptr + 1, MEMORY_LENGTH);"
          /\ c_ptr' = c_MOD(c_ptr, 1, 1, TapeSize)
       \/ /\ c_statement = "ptr = MOD(ptr - 1, MEMORY_LENGTH);"
          /\ c_ptr' = c_MOD(c_ptr, 0 - 1, 1, TapeSize)
    /\ c_i' = c_i + 1
    /\ UNCHANGED <<inputs, disv, pc, lexv, progv, endv, runv, c_pc, c_code, c_mem, c_in, c_out>>

CArith ==
    /\ c_pc = "run"
    /\ \E v \in c_load(c_mem, c_ptr) :
          \/ /\ c_statement = "mem[ptr]++;"
             /\ c_mem' = dict_set(c_mem, c_ptr, c_char(v + 1))
          \/ /\ c_statement = "mem[ptr]--;"
             /\ c_mem' = dict_set(c_mem, c_ptr, c_char(v - 1))
    /\ c_i' = c_i + 1
    /\ UNCHANGED <<inputs, disv, pc, lexv, progv, endv, runv, c_pc, c_code, c_ptr, c_in, c_out>>

CGetchar ==
    /\ c_pc = "run" /\ c_statement = "mem[ptr] = getchar();"
    /\ c_mem' = dict_set(c_mem, c_ptr, c_char(c_getchar(stdin, c_in)))
    /\ c_in' = IF c_in < Len(stdin) THEN c_in + 1 ELSE c_in
    /\ c_i' = c_i + 1
    /\ UNCHANGED <<inputs, disv, pc, lexv, progv, endv, runv, c_pc, c_code, c_ptr, c_out>>

CPutchar ==
    /\ c_pc = "run" /\ c_statement = "putchar(mem[ptr]);"
    /\ Len(c_out) < MaxOut
    /\ \E v \in c_load(c_mem, c_ptr) :
          /\ c_mem' = dict_set(c_mem, c_ptr, v)
          /\ c_out' = Append(c_out, v)
    /\ c_i' = c_i + 1
    /\ UNCHANGED <<inputs, disv, pc, lexv, progv, endv, runv, c_pc, c_code, c_ptr, c_in>>

\* while (mem[ptr]) { : into the block, or past its closing brace
CWhile ==
    /\ c_pc = "run" /\ c_statement = "while (mem[ptr]) {"
    /\ \E v \in c_load(c_mem, c_ptr) :
          /\ c_mem' = dict_set(c_mem, c_ptr, v)
          /\ c_i' = IF v # 0 THEN c_i + 1 ELSE c_block_end(c_code, c_i + 1, 0) + 1
    /\ UNCHANGED <<inputs, disv, pc, lexv, progv, endv, runv, c_pc, c_code, c_ptr, c_in, c_out>>

\* }; : back to the condition of the while statement
CEndWhile ==
    /\ c_pc = "run" /\ c_statement = "};"
    /\ c_i' = c_block_begin(c_code, c_i - 1, 0)
    /\ UNCHANGED <<inputs, disv, pc, lexv, progv, endv, runv, c_pc, c_code, c_mem, c_ptr, c_in, c_out>>

\* the closing brace of main
CReturn ==
    /\ c_pc = "run" /\ c_statement = "}"
    /\ c_pc' = "exit"
    /\ UNCHANGED <<inputs, disv, pc, lexv, progv, endv, runv, c_code, c_i, c_mem, c_ptr, c_in, c_out>>

\* ---------------------------------------------------------------- specification

Next ==
    \/ ProgramInit
    \/ TrimHeaderOnce
    \/ MakeBounds
    \/ RunProgram
    \/ ExecNext
    \/ ExecPrevious
    \/ ExecAdd
    \/ ExecSubtract
    \/ ExecBeginLoop
    \/ ExecEndLoop
    \/ ExecInput
    \/ ExecOutput
    \/ ExecEnd
    \/ CompileToC
    \/ CStart
    \/ CMove
    \/ CArith
    \/ CGetchar
    \/ CPutchar
    \/ CWhile
    \/ CEndWhile
    \/ CReturn

Spec == Init /\ [][Next]_vars

\* ---------------------------------------------------------------- the tokenizer alone

\* Relex.text_to_instrs step by step, over tables whose tokens are prefixes
\* of one another.

\* the shorter tokens are declared first
short_first ==
    << <<"Previous", <<"a">> >>,
       <<"Next", <<"a", "b">> >>,
       <<"Add", <<"b">> >>,
       <<"Subtract", <<"b", "a">> >>,
       <<"Input", <<"a", "a">> >>,
       <<"Output", <<"b", "b">> >>,
       <<"BeginLoop", <<"a", "b", "a">> >>,
       <<"EndLoop", <<"b", "a", "b">> >> >>

\* the longer tokens are declared first
long_first ==
    << <<"BeginLoop", <<"a", "b", "a">> >>,
       <<"EndLoop", <<"b", "a", "b">> >>,
       <<"Next", <<"a", "b">> >>,
       <<"Subtract", <<"b", "a">> >>,
       <<"Input", <<"a", "a">> >>,
       <<"Output", <<"b", "b">> >>,
       <<"Previous", <<"a">> >>,
       <<"Add", <<"b">> >> >>

Tables == {standard, short_first, long_first}

LexChars == {"a", "b", "x", "+"}

InitLex ==
    /\ text \in Seqs(LexChars, MaxText)
    /\ relex \in Tables
    /\ optimise = FALSE
    /\ stdin = <<>>
    /\ file = <<>>
    /\ pc = "lex"
    /\ InitRest

\* an iteration of the while loop in which a token matches
LexMatch ==
    /\ pc = "lex"
    /\ buf_peek(text, pos, 1) # <<>>
    /\ LET s == lex_step(relex, text, pos)
       IN /\ s.yield # <<>>
          /\ yielded' = yielded \o s.yield
          /\ pos' = buf_read(text, pos, s.read)
    /\ UNCHANGED <<inputs, disv, pc, progv, endv, runv, cv>>

\* an iteration of the while loop in which no token matches
LexSkip ==
    /\ pc = "lex"
    /\ buf_peek(text, pos, 1) # <<>>
    /\ LET s == lex_step(relex, text, pos)
       IN /\ s.yield = <<>>
          /\ pos' = buf_read(text, pos, s.read)
    /\ UNCHANGED <<inputs, disv, pc, yielded, progv, endv, runv, cv>>

\* the while loop ends: nothing is left to peek
LexEnd ==
    /\ pc = "lex"
    /\ buf_peek(text, pos, 1) = <<>>
    /\ pc' = "lexed"
    /\ UNCHANGED <<inputs, disv, lexv, progv, endv, runv, cv>>

NextLex == LexMatch \/ LexSkip \/ LexEnd

SpecLex == InitLex /\ [][NextLex]_vars

\* ---------------------------------------------------------------- relex definition files alone

\* the plain directive line of an instruction: its character, a space, the
\* standard token, the end of the line
directive(pair) == <<to_char(pair[1]), " ">> \o pair[2] \o <<"\n">>

\* the plain directives of the instructions not in missing, in the order
\* of the standard relex
plain_lines(missing) ==
    LET kept == SelectSeq(standard, LAMBDA pair : pair[1] \notin missing)
    IN [i \in DOMAIN kept |-> directive(kept[i])]

\* the other lines a definition file is given: blank, indented comment,
\* separators of spaces and tabs, a lone character, an unknown key
NoiseLines ==
    { <<" ", "\n">>,
      <<" ", "#", " ", "+", "\n">>,
      <<"+", "\t", "p", "\n">>,
      <<"+", "\n">>,
      <<"x", " ", "y", "\n">>,
      <<" ", "+", " ", " ", "-", "p", " ", "\n">>,
      <<"+", " ", "\t", "p", "\n">>,
      <<"+", "\t", " ", "p", "\n">> }

\* lines with the lines of noise put in after the first at lines
insert(lines, noise, at) ==
    SubSeq(lines, 1, at) \o noise \o SubSeq(lines, at + 1, Len(lines))

\* the instructions a definition file may leave without a plain directive,
\* the first MaxMissing of them
Omissible ==
    <<"Previous", "Add", "EndLoop", "Input", "Next", "Subtract", "Output", "BeginLoop">>

Files ==
    { insert(plain_lines(missing), noise, at) :
        missing \in SUBSET {Omissible[i] : i \in 1 .. MaxMissing},
        noise \in Seqs(NoiseLines, MaxNoise),
        at \in {0, Cardinality(Instruction) - MaxMissing} }

InitRelex ==
    /\ text = <<>>
    /\ relex = <<>>
    /\ optimise = FALSE
    /\ stdin = <<>>
    /\ file \in Files
    /\ pc = "relex_file"
    /\ InitRest

\* Relex.from_relex_file up to its last statement: the lines are parsed
\* into instr_map, or the first rejected line raises
FromRelexFile ==
    /\ pc = "relex_file"
    /\ LET result == parse_lines(file, 0, <<>>)
       IN IF result.kind = "RelexParsingError"
          THEN Raise(result) /\ UNCHANGED relex
          ELSE /\ relex' = result.instr_map
               /\ pc' = "relex_init"
               /\ UNCHANGED endv
    /\ UNCHANGED <<text, optimise, stdin, file, lexv, progv, runv, cv, disv>>

\* the last statement of from_relex_file: cls(...) runs Relex.__init__ on
\* the instr_map
RelexInit ==
    /\ pc = "relex_init"
    /\ LET result == relex_init(relex)
       IN IF result.kind = "RelexParsingError"
          THEN Raise(result)
          ELSE pc' = "relex_ready" /\ UNCHANGED endv
    /\ UNCHANGED <<inputs, disv, lexv, progv, runv, cv>>

\* the characters of the texts tokenized with the relex of a definition file
RelexChars == {"-", "+", "p"}

\* Program.__init__ is given a text and calls relex.text_to_instrs on it
OpenText ==
    /\ pc = "relex_ready"
    /\ text' \in Seqs(RelexChars, MaxRelexText)
    /\ pc' = "lex"
    /\ UNCHANGED <<relex, optimise, stdin, file, disv, lexv, progv, endv, runv, cv>>

NextRelex ==
    \/ FromRelexFile
    \/ RelexInit
    \/ OpenText
    \/ LexMatch
    \/ LexSkip
    \/ LexEnd

\* the while loop of text_to_instrs runs on: an iteration that can be taken
\* is taken
SpecRelex ==
    /\ InitRelex
    /\ [][NextRelex]_vars
    /\ WF_vars(LexMatch) /\ WF_vars(LexSkip) /\ WF_vars(LexEnd)

\* ---------------------------------------------------------------- Program.__init__ alone

InitConstruct ==
    /\ text \in Programs
    /\ relex = standard
    /\ optimise \in BOOLEAN
    /\ stdin = <<>>
    /\ file = <<>>
    /\ pc = "new"
    /\ InitRest

NextConstruct == ProgramInit \/ TrimHeaderOnce \/ MakeBounds

\* the loop of _trim_headers runs on: an iteration that can be taken is
\* taken
SpecConstruct ==
    InitConstruct /\ [][NextConstruct]_vars /\ WF_vars(TrimHeaderOnce)

\* ---------------------------------------------------------------- disassemble alone

\* disassemble(program, to_json=True): _disassemble_json
DisassembleJson ==
    /\ pc = "ready"
    /\ listing' = [format |-> "json",
                   instructions |-> json_instructions(instructions, 0),
                   none_marker |-> FALSE,
                   loop_indices |-> loop_entries(loop_boundaries)]
    /\ pc' = "disassembled"
    /\ exit_status' = main_exit_status("return")
    /\ UNCHANGED <<inputs, lexv, progv, error, runv, cv>>

\* disassemble(program, to_json=False): _disassemble_readable.  The two
\* widths of the loop-index section are computed before any of its lines is
\* written; a ValueError from them leaves main uncaught, after the
\* Instructions section was written.
DisassembleReadable ==
    /\ pc = "ready"
    /\ LET written == [format |-> "readable",
                       instructions |-> readable_instructions(instructions),
                       none_marker |-> FALSE,
                       loop_indices |-> <<>>]
           max_li == get_max_width({b[1] : b \in loop_boundaries})
           max_ri == get_max_width({b[2] : b \in loop_boundaries})
       IN IF Cardinality(loop_boundaries) = 0
          THEN /\ listing' = [written EXCEPT !.none_marker = TRUE]
               /\ pc' = "disassembled"
               /\ exit_status' = main_exit_status("return")
               /\ UNCHANGED error
          ELSE IF max_li.kind = "ValueError" \/ max_ri.kind = "ValueError"
               THEN /\ listing' = written
                    /\ Raise(IF max_li.kind = "ValueError" THEN max_li ELSE max_ri)
               ELSE /\ listing' = [written EXCEPT
                                      !.loop_indices = loop_entries(loop_boundaries)]
                    /\ pc' = "disassembled"
                    /\ exit_status' = main_exit_status("return")
                    /\ UNCHANGED error
    /\ UNCHANGED <<inputs, lexv, progv, runv, cv>>

NextDisassemble ==
    \/ ProgramInit
    \/ TrimHeaderOnce
    \/ MakeBounds
    \/ DisassembleJson
    \/ DisassembleReadable

SpecDisassemble == InitConstruct /\ [][NextDisassemble]_vars

\* ---------------------------------------------------------------- properties

\* Program.__init__ has returned: a Program exists
Constructed == pc \in {"ready", "run", "exit", "graceful", "BfRuntimeError"}

\* the indices of instrs that hold a loop instruction
LoopIndices(instrs) ==
    {i \in 0..(Len(instrs) - 1) : instrs[i + 1] \in {"BeginLoop", "EndLoop"}}

\* bounds is a proper bracket matching of instrs
ProperMatching(instrs, bounds) ==
    /\ \A t \in bounds :
          /\ 0 <= t[1] /\ t[1] < t[2] /\ t[2] < Len(instrs)
          /\ instrs[t[1] + 1] = "BeginLoop"
          /\ instrs[t[2] + 1] = "EndLoop"
    /\ \A i \in LoopIndices(instrs) :
          Cardinality({t \in bounds : t[1] = i \/ t[2] = i}) = 1
    /\ \A t, u \in bounds : t[1] < u[1] => (t[2] < u[1] \/ u[2] < t[2])

Example1 == <<"+", "+", "+", "+", "[", "-", "-", "[", "-", "]", "]", ".">>

\* C1: after a successful construction, with or without optimise,
\* loop_boundaries is a proper bracket matching of the final instructions:
\* every index holding BeginLoop or EndLoop is in exactly one pair, each
\* pair (l, r) has l < r with BeginLoop at l and EndLoop at r, and no two
\* pairs cross; for "++++[--[-]]." the pairs are exactly (4, 10) and (7, 9).
C1_ProperMatching ==
    Constructed =>
        /\ ProperMatching(instructions, loop_boundaries)
        /\ text = Example1 => loop_boundaries = {<<4, 10>>, <<7, 9>>}

\* the program "++++[--[-]]." constructed, with its nested pairs
C1_Witness ==
    /\ Constructed
    /\ text = Example1
    /\ \E t, u \in loop_boundaries : t[1] < u[1] /\ u[2] < t[2]

\* C2: for every pair (l, r) of a constructed Program, get_other_bound(l)
\* returns r and get_other_bound(r) returns l, whatever order the set of
\* pairs is iterated in.
C2_Symmetric ==
    Constructed =>
        \A t \in loop_boundaries :
            /\ get_other_bound(loop_boundaries, t[1]) = {t[2]}
            /\ get_other_bound(loop_boundaries, t[2]) = {t[1]}

\* the interpreter has just jumped over a leading loop of a program with
\* several pairs: nothing but the lookup has happened
C2_Witness ==
    /\ pc = "run"
    /\ Cardinality(loop_boundaries) >= 2
    /\ data = EmptyDict /\ data_ptr = 0
    /\ \E t \in loop_boundaries : t[1] = 0 /\ program_ptr = t[2] + 1

\* C3: for every validated Program and every input stream, also one that is
\* exhausted while the program still executes Input instructions, the bytes
\* run_program writes are the bytes the code emitted by compile_to_c writes
\* (stated here for the runs in which both have ended).
C3_SameOutput ==
    (pc \in {"exit", "graceful"} /\ c_pc = "exit") => stdout_bytes(out) = c_out

\* the number of instructions equal to instr at the indices a..b of instrs
CountOf(instrs, instr, a, b) == Cardinality({j \in a..b : instrs[j + 1] = instr})

\* the indices a..b of instrs hold as many BeginLoop as EndLoop
Balanced(instrs, a, b) ==
    CountOf(instrs, "BeginLoop", a, b) = CountOf(instrs, "EndLoop", a, b)

\* the partner of the loop instruction at index i, by counting brackets: for
\* a BeginLoop the nearest EndLoop after it that balances it, for an EndLoop
\* the nearest BeginLoop before it that balances it
Partner(instrs, i) ==
    IF instrs[i + 1] = "BeginLoop"
    THEN CHOOSE r \in (i + 1)..(Len(instrs) - 1) :
            /\ Balanced(instrs, i, r)
            /\ \A q \in (i + 1)..(r - 1) : ~Balanced(instrs, i, q)
    ELSE CHOOSE l \in 0..(i - 1) :
            /\ Balanced(instrs, l, i)
            /\ \A q \in (l + 1)..(i - 1) : ~Balanced(instrs, q, i)

\* the value of the cell the tape pointer addresses
CurrentCell ==
    IF data_ptr % TapeSize \in DOMAIN data THEN data[data_ptr % TapeSize] ELSE 0

\* C4: run_program advances the program pointer by 1 after every executed
\* instruction, also after a jump: a BeginLoop at l on a zero cell makes the
\* next fetched index partner(l) + 1, an EndLoop at r on a non-zero cell
\* makes it partner(r) + 1, the first instruction of the loop body, and in
\* every other case the next fetched index is the current index + 1.
C4_NextFetched ==
    [][(pc = "run" /\ pc' = "run") =>
        program_ptr' =
            IF instructions[program_ptr + 1] = "BeginLoop" /\ CurrentCell = 0
            THEN Partner(instructions, program_ptr) + 1
            ELSE IF instructions[program_ptr + 1] = "EndLoop" /\ CurrentCell # 0
                 THEN Partner(instructions, program_ptr) + 1
                 ELSE program_ptr + 1]_vars

\* in "++++[--[-]]." the inner EndLoop at 9 has jumped back to index 8 with
\* the cell at 1
C4_Witness ==
    /\ pc = "run"
    /\ text = Example1
    /\ program_ptr = 8
    /\ CurrentCell = 1

\* pair number i of the table matches at the cursor: its token equals the
\* next Len(token) characters of the text, all of them inside the text
TokenMatches(i) ==
    LET token == relex[i][2]
    IN /\ pos + Len(token) <= Len(text)
       /\ \A k \in 1..Len(token) : text[pos + k] = token[k]

\* the first pair, in the declared order, that matches at the cursor
FirstMatch ==
    CHOOSE i \in 1..Len(relex) : TokenMatches(i) /\ \A j \in 1..(i - 1) : ~TokenMatches(j)

\* token p is a (not necessarily proper) prefix of token t
IsPrefix(p, t) == Len(p) <= Len(t) /\ \A k \in 1..Len(p) : p[k] = t[k]

\* the instructions whose token has an earlier-declared token as a prefix
Shadowed ==
    {relex[i][1] : i \in {i \in 1..Len(relex) :
                             \E j \in 1..(i - 1) : IsPrefix(relex[j][2], relex[i][2])}}

\* C5: text_to_instrs scans with a single forward cursor: at each cursor
\* position the first pair, in the declared order, whose token equals the
\* next len(token) characters is emitted and the cursor advances by exactly
\* len(token); if no pair matches (also when a token would run past the end
\* of the input) the cursor advances by exactly one character and nothing is
\* emitted.  So a token that has an earlier-declared token as a prefix is
\* never emitted.
C5_FirstDeclaredMatch ==
    /\ [][(pc = "lex" /\ pos < Len(text)) =>
            IF \E i \in 1..Len(relex) : TokenMatches(i)
            THEN /\ yielded' = Append(yielded, relex[FirstMatch][1])
                 /\ pos' = pos + Len(relex[FirstMatch][2])
            ELSE /\ yielded' = yielded
                 /\ pos' = pos + 1]_vars
    /\ [](\A k \in 1..Len(yielded) : yielded[k] \notin Shadowed)

\* under the table that declares "a" before "ab" and "aba", the text "abab"
\* has been scanned to its end: Next and BeginLoop were never emitted, and
\* the tokens that matched were "a" and "b"
C5_Witness ==
    /\ pc = "lexed"
    /\ relex = short_first
    /\ text = <<"a", "b", "a", "b">>
    /\ yielded = <<"Previous", "Add", "Previous", "Add">>

\* the sequence Program.__init__ starts from: the tokens and the sentinel
Tokenized == text_to_instrs(relex, text) \o <<None>>

\* seq starts with a complete bracket block
HasLeadingBlock(seq) ==
    /\ seq # <<>>
    /\ seq[1] = "BeginLoop"
    /\ \E r \in 1..(Len(seq) - 1) : Balanced(seq, 0, r)

\* seq without its maximal leading run of complete top-level bracket blocks
RECURSIVE StripLeadingBlocks(_)
StripLeadingBlocks(seq) ==
    IF HasLeadingBlock(seq)
    THEN StripLeadingBlocks(SubSeq(seq, Partner(seq, 0) + 2, Len(seq)))
    ELSE seq

\* the pairs of a balanced sequence, by counting brackets
PairsOf(seq) ==
    {<<l, Partner(seq, l)>> : l \in {i \in 0..(Len(seq) - 1) : seq[i + 1] = "BeginLoop"}}

\* C6: with optimise, the instructions of the constructed Program are the
\* tokenized sequence without its maximal leading run of complete top-level
\* bracket blocks, so no complete block begins at index 0, and the jump map
\* holds the pairs of the remaining code only, renumbered from 0: each index
\* is the unoptimised index minus the number of removed instructions.
C6_HeadersTrimmed ==
    (Constructed /\ optimise) =>
        LET removed == Len(Tokenized) - Len(instructions)
        IN /\ instructions = StripLeadingBlocks(Tokenized)
           /\ ~HasLeadingBlock(instructions)
           /\ loop_boundaries =
                 {<<t[1] - removed, t[2] - removed>> :
                     t \in {u \in PairsOf(Tokenized) : u[1] >= removed}}

\* a program constructed with optimise from which a header block was removed,
\* with a loop left in the remaining code
C6_Witness ==
    /\ Constructed /\ optimise
    /\ loop_boundaries # {}
    /\ HasLeadingBlock(Tokenized)
    /\ Len(instructions) < Len(Tokenized)

\* the BeginLoop indices of instrs that no later EndLoop balances
Unclosed(instrs) ==
    {i \in 0..(Len(instrs) - 1) :
        /\ instrs[i + 1] = "BeginLoop"
        /\ ~\E r \in (i + 1)..(Len(instrs) - 1) : Balanced(instrs, i, r)}

\* the EndLoop indices of instrs that no earlier BeginLoop balances
Unopened(instrs) ==
    {i \in 0..(Len(instrs) - 1) :
        /\ instrs[i + 1] = "EndLoop"
        /\ ~\E l \in 0..(i - 1) : Balanced(instrs, l, i)}

Min(S) == CHOOSE x \in S : \A y \in S : x <= y

Max(S) == CHOOSE x \in S : \A y \in S : x >= y

\* construction failed on an unmatched BeginLoop
UnmatchedBegin == pc = "ParsingError" /\ error.message = "Unmatched [ instruction"

\* construction failed on an unmatched EndLoop
UnmatchedEnd == pc = "ParsingError" /\ error.message = "Unmatched ] instruction"

\* C7 as stated: when the scan ends with BeginLoop indices pending on the
\* stack, the ParsingError carries the oldest pushed index, the first
\* unclosed BeginLoop of the sequence.
C7_OldestUnclosed ==
    UnmatchedBegin => error.char = Min(Unclosed(instructions))

\* C7 as amended: when the scan ends with BeginLoop indices pending on the
\* stack, the ParsingError carries the index pushed last, the last unclosed
\* BeginLoop of the sequence scanned; "[" alone fails with index 0.
C7_NewestUnclosed ==
    UnmatchedBegin =>
        /\ Unclosed(instructions) # {}
        /\ error.char = Max(Unclosed(instructions))
        /\ text = <<"[">> => error.char = 0

\* construction failed with two BeginLoop left unclosed
C7_Witness ==
    /\ UnmatchedBegin
    /\ Cardinality(Unclosed(instructions)) >= 2

\* C8: when the scan meets an EndLoop while no BeginLoop is pending,
\* construction fails with a ParsingError carrying the index of that EndLoop,
\* the first such, in the sequence being scanned; no Program comes to exist,
\* so no jump map, partial or not, is ever assigned or used; "]" alone fails
\* with index 0.
C8_FirstUnopened ==
    UnmatchedEnd =>
        /\ Unopened(instructions) # {}
        /\ error.char = Min(Unopened(instructions))
        /\ loop_boundaries = {}
        /\ c_pc = "none"
        /\ exit_status = 1
        /\ text = <<"]">> => error.char = 0

\* construction with optimise failed on an unmatched EndLoop after a header
\* was trimmed: the index counts in the trimmed sequence
C8_Witness ==
    /\ UnmatchedEnd
    /\ optimise
    /\ Len(instructions) < Len(Tokenized)
    /\ error.char > 0

\* the interpreter is about to execute instr
Executing(instr) ==
    /\ pc = "run"
    /\ 0 <= program_ptr /\ program_ptr < Len(instructions)
    /\ instructions[program_ptr + 1] = instr

\* C9: when an Input instruction executes and the input is exhausted, the
\* run ends at once and gracefully: no later instruction is executed, no
\* further byte is written, the current cell is not modified, and the
\* process ends successfully, with no runtime or parsing error.
C9_GracefulExit ==
    /\ [][(Executing("Input") /\ in_pos >= Len(stdin)) =>
            /\ pc' = "graceful"
            /\ exit_status' = 0
            /\ error' = NoError
            /\ UNCHANGED <<program_ptr, data, data_ptr, in_pos, out>>]_vars
    /\ [][pc = "graceful" =>
            /\ pc' = "graceful"
            /\ UNCHANGED <<program_ptr, data, data_ptr, in_pos, out, error, exit_status>>]_vars

\* a run that read a character, wrote it, and then ended on the exhausted
\* input
C9_Witness ==
    /\ pc = "graceful"
    /\ in_pos = Len(stdin) /\ in_pos > 0
    /\ out # <<>>

\* the value of tape cell k
CellAt(d, k) == IF k \in DOMAIN d THEN d[k] ELSE 0

\* C10 as stated: the tape pointer of the interpreter is wrapped on every
\* move, so it always lies in [0, tapeLength).
C10_PointerInRange ==
    pc = "run" => (0 <= data_ptr /\ data_ptr < TapeSize)

\* C10 as amended: MoveRight adds 1 to data_ptr and MoveLeft subtracts 1,
\* without wrapping (MoveLeft from 0 yields -1); the wrap is applied by
\* _ProcessMemory at each access, so the cell addressed is always
\* data_ptr mod tapeLength, in [0, tapeLength): it moves from a to
\* (a + 1) mod tapeLength on MoveRight (so N moves from p address
\* (p + N) mod tapeLength), from 0 to tapeLength - 1 on MoveLeft, and only
\* the addressed cell is written.
C10_AddressWrapped ==
    /\ [](DOMAIN data \subseteq 0..(TapeSize - 1))
    /\ [][Executing("Next") =>
            /\ data_ptr' = data_ptr + 1
            /\ data_ptr' % TapeSize = ((data_ptr % TapeSize) + 1) % TapeSize]_vars
    /\ [][Executing("Previous") =>
            /\ data_ptr' = data_ptr - 1
            /\ data_ptr' % TapeSize =
                  (IF data_ptr % TapeSize = 0 THEN TapeSize ELSE data_ptr % TapeSize) - 1]_vars
    /\ [][pc = "run" =>
            \A k \in 0..(TapeSize - 1) :
                k # data_ptr % TapeSize => CellAt(data', k) = CellAt(data, k)]_vars
    /\ [][(Executing("Add") \/ Executing("Subtract")) =>
            CellAt(data', data_ptr % TapeSize) # CellAt(data, data_ptr % TapeSize)]_vars

\* "+[>+]" has moved right once around the tape: data_ptr is tapeLength and
\* cell 0 has been incremented a second time
C10_Witness ==
    /\ pc = "run"
    /\ data_ptr = TapeSize
    /\ CellAt(data, 0) = 2

\* a MoveLeft from position 0 has made data_ptr negative, and the cell
\* written is the last one of the tape
C10_WitnessLeft ==
    /\ pc = "run"
    /\ data_ptr = 0 - 1
    /\ CellAt(data, TapeSize - 1) # 0

\* the tape addresses
Addresses == 0 .. TapeSize - 1

\* the cells other than the addressed one read the same after the step
OtherCellsKept ==
    \A k \in Addresses :
        k # data_ptr % TapeSize => mem_getitem(data', k) = mem_getitem(data, k)

\* the addressed cell reads as v after the step
CellBecomes(v) == mem_getitem(data', data_ptr) = v /\ OtherCellsKept

\* C11: cell arithmetic is modulo 256.  Every value read from a cell lies
\* in 0..255; an Add step makes the addressed cell read one more, 255
\* becoming 0; a Subtract step one less, 0 becoming 255; an Input step
\* that reads a character makes it read the character's code modulo 256.
\* By induction 256 Adds, or 256 Subtracts, restore the value.
C11_CellsModulo ==
    /\ [](\A k \in Addresses : mem_getitem(data, k) \in 0 .. CellSize - 1)
    /\ [][ExecAdd => CellBecomes(IF cell = CellSize - 1 THEN 0 ELSE cell + 1)]_vars
    /\ [][ExecSubtract => CellBecomes(IF cell = 0 THEN CellSize - 1 ELSE cell - 1)]_vars
    /\ [][ExecInput /\ in_pos' # in_pos => CellBecomes(stdin[in_pos + 1] % CellSize)]_vars

\* the loop of "+[+]" has ended: the cell was incremented 256 times and
\* reads 0 again
C11_Witness ==
    /\ text = <<"+", "[", "+", "]">>
    /\ pc = "exit"
    /\ c_pc = "none"
    /\ mem_getitem(data, data_ptr) = 0

\* the instructions the instruction_map handed to Relex.__init__ maps
Mapped == {relex[i][1] : i \in DOMAIN relex}

\* the canonical characters in ascending order
CanonicalAscending == <<"+", ",", "-", ".", "<", ">", "[", "]">>

\* the canonical characters of the instructions without a mapping, ascending
MissingAscending ==
    SelectSeq(CanonicalAscending, LAMBDA c : from_char(c) \notin Mapped)

\* Relex.__init__ has run
RelexInitDone ==
    \/ pc = "relex_ready"
    \/ pc = "RelexParsingError" /\ error.line = <<>>

\* C12: when the lines of a definition map fewer than all 8 instructions,
\* Relex.__init__ raises RelexParsingError without a line number, and the
\* characters its message names are exactly those of the instructions
\* without a mapping, in ascending order; a Relex is constructed only when
\* all 8 instructions are mapped.
C12_Inexhaustive ==
    RelexInitDone =>
        IF Mapped = Instruction
        THEN pc = "relex_ready" /\ error = NoError
        ELSE /\ pc = "RelexParsingError"
             /\ error.line = <<>>
             /\ error.message.detail = MissingAscending
             /\ exit_status = 1

\* a definition without a line for "<" and "+", which the standard order
\* lists the other way round
C12_Witness ==
    /\ pc = "RelexParsingError"
    /\ error.line = <<>>
    /\ error.message.detail = <<"+", "<">>

\* the line without its surrounding whitespace
Trimmed(line) ==
    LET inked == {i \in DOMAIN line : line[i] \notin Whitespace}
    IN IF inked = {} THEN <<>> ELSE SubSeq(line, Min(inked), Max(inked))

\* a line that is neither blank nor a comment
IsDirective(line) ==
    LET trimmed == Trimmed(line)
    IN trimmed # <<>> /\ trimmed[1] # "#"

\* a directive split at the first of the separators of its trimmed line:
\* the part before it, and the part after it, trimmed; without a separator
\* the line and no token
SplitLine(line, separators) ==
    LET trimmed == Trimmed(line)
        found == {i \in DOMAIN trimmed : trimmed[i] \in separators}
    IN IF found = {}
       THEN [key |-> trimmed, token |-> <<>>]
       ELSE [key |-> SubSeq(trimmed, 1, Min(found) - 1),
             token |-> Trimmed(SubSeq(trimmed, Min(found) + 1, Len(trimmed)))]

\* the split names a canonical character and gives it a token
WellFormed(split) ==
    /\ Len(split.key) = 1
    /\ from_char(split.key[1]) # None
    /\ split.token # <<>>

\* the numbers of the directive lines of the file
DirectiveLines == {i \in DOMAIN file : IsDirective(file[i])}

\* the directive lines of the file, split
SplitLines(separators) ==
    [i \in DirectiveLines |-> SplitLine(file[i], separators)]

\* from_relex_file rejected a line
LineRejected == pc = "RelexParsingError" /\ error.line # <<>>

\* once the lines are parsed: a line is rejected exactly when some
\* directive, split at the first of the separators, is not well formed;
\* else the instructions mapped are those the directives name, each to the
\* token of one of its directives
LinesSplitAt(separators) ==
    pc # "relex_file" =>
        LET split == SplitLines(separators)
            entries == {<<from_char(split[i].key[1]), split[i].token>> : i \in DOMAIN split}
        IN IF \A i \in DOMAIN split : WellFormed(split[i])
           THEN /\ ~ LineRejected
                /\ Mapped = {entry[1] : entry \in entries}
                /\ \A n \in DOMAIN relex : relex[n] \in entries
           ELSE LineRejected

\* C13 as stated: every directive line is split at the first run of
\* whitespace, spaces or tabs, into the canonical character and the token,
\* so that a directive whose separator is a tab is accepted.
C13_SplitAtWhitespace == LinesSplitAt(Whitespace)

\* C13 amended: every directive line is split at its first space
\* character; the token is the rest of the line trimmed of spaces and
\* tabs, and a directive with a tab before its first space, or with no
\* space, is rejected.
C13_SplitAtSpace == LinesSplitAt({" "})

\* a definition is accepted whose line "+ <tab>p" maps Add to "p"
C13_Witness ==
    /\ pc = "relex_ready"
    /\ \E i \in DOMAIN file : file[i] = <<"+", " ", "\t", "p", "\n">>
    /\ \E n \in DOMAIN relex : relex[n] = <<"Add", <<"p">>>>

\* the numbers of the directive lines from_relex_file rejects: the token is
\* empty after trimming, or the key is not a canonical character
Offending ==
    LET split == SplitLines({" "})
    IN {i \in DOMAIN split : ~ WellFormed(split[i])}

\* the instructions some directive line of the file names
Named ==
    LET split == SplitLines({" "})
    IN {from_char(split[i].key[1]) : i \in {j \in DOMAIN split : Len(split[j].key) = 1}}

\* C14: when a directive line is rejected, the RelexParsingError carries
\* the 1-based number the first offending line has in the whole file,
\* blank and comment lines counted; a file with an offending line ends so
\* whether or not its other lines name all instructions, and no line number
\* is carried otherwise.
C14_LineNumber ==
    pc # "relex_file" =>
        LET offending == Offending
        IN IF offending # {}
           THEN /\ pc = "RelexParsingError"
                /\ error.line = <<Min(offending)>>
                /\ exit_status = 1
           ELSE ~ LineRejected

\* the second line is rejected after a blank or comment line, and the
\* lines do not name all instructions
C14_Witness ==
    /\ LineRejected
    /\ error.line = <<2>>
    /\ ~ IsDirective(file[1])
    /\ Named \ {None} # Instruction

\* two lines offend and the error carries the number of the first
C14_WitnessFirst ==
    /\ LineRejected
    /\ Cardinality(Offending) = 2
    /\ error.line = <<Min(Offending)>>

\* the sentinel is the last element and occurs nowhere else
SentinelOnceAndLast(instrs) ==
    /\ instrs # <<>>
    /\ Last(instrs) = None
    /\ \A i \in 1 .. Len(instrs) - 1 : instrs[i] # None

\* C15: from the tokenizing on, through every iteration of the header
\* trimming and in every constructed Program, with or without optimise,
\* the sentinel None occurs exactly once in instructions, as its last
\* element.
C15_SentinelLast ==
    pc \in {"trim", "bounds", "ready"} => SentinelOnceAndLast(instructions)

\* the whole program was headers: trimming left the sentinel alone
C15_Witness ==
    /\ pc = "ready"
    /\ optimise
    /\ Len(Tokenized) > 3
    /\ instructions = <<None>>

\* disassemble was called and has ended, one way or the other
Disassembled == pc = "disassembled" \/ (pc = "ValueError" /\ listing # NoListing)

\* the entries list every pair of the loop boundaries once, ascending by
\* the left index
ListsEveryPair(entries) ==
    /\ {<<entries[i].left, entries[i].right>> : i \in DOMAIN entries} = loop_boundaries
    /\ Len(entries) = Cardinality(loop_boundaries)
    /\ \A i, j \in DOMAIN entries : i < j => entries[i].left < entries[j].left

\* C16: for every constructed Program, both renderings of the disassembly
\* complete without error and list every pair of the loop boundaries once,
\* ascending by the left index; the readable rendering writes the "(none)"
\* marker exactly when there is no pair.  Programs whose only loop begins
\* at index 0 are included.
C16_DisassemblyCompletes ==
    Disassembled =>
        /\ pc = "disassembled"
        /\ exit_status = 0
        /\ ListsEveryPair(listing.loop_indices)
        /\ listing.format = "readable" => (listing.none_marker <=> loop_boundaries = {})

\* C16 holds of the JSON rendering
C16_JsonCompletes ==
    (Disassembled /\ listing.format = "json") =>
        pc = "disassembled" /\ ListsEveryPair(listing.loop_indices)

\* the readable rendering fails exactly when the largest left index is 0
C16_ReadableFailsAtZero ==
    (Disassembled /\ listing.format = "readable") =>
        IF loop_boundaries # {} /\ \A b \in loop_boundaries : b[1] = 0
        THEN pc = "ValueError" /\ exit_status = 1 /\ listing.loop_indices = <<>>
        ELSE /\ pc = "disassembled"
             /\ ListsEveryPair(listing.loop_indices)
             /\ listing.none_marker <=> loop_boundaries = {}

\* the indices that belong to a pair of the loop boundaries
PairedIndices == {b[1] : b \in loop_boundaries} \cup {b[2] : b \in loop_boundaries}

\* C17: run_program never reaches its defensive failures.  At every fetch
\* the program pointer is an index of instructions, counted from the
\* front; the pointer reaches the last index only at the sentinel; every
\* BeginLoop or EndLoop it stands at belongs to a pair, so that
\* get_other_bound answers; and BfRuntimeError is never raised.
C17_NoRuntimeError ==
    /\ pc # "BfRuntimeError"
    /\ error.kind # "BfRuntimeError"
    /\ pc = "run" =>
          /\ 0 <= program_ptr /\ program_ptr <= Len(instructions) - 1
          /\ fetch(instructions, program_ptr) # "IndexError"
          /\ program_ptr = Len(instructions) - 1 <=> instruction = None
          /\ instruction \in {"BeginLoop", "EndLoop"} =>
                /\ program_ptr \in PairedIndices
                /\ get_other_bound(loop_boundaries, program_ptr) # {}

\* the interpreter is about to jump back from the EndLoop of an inner loop
C17_Witness ==
    /\ Executing("EndLoop")
    /\ CurrentCell # 0
    /\ Cardinality(loop_boundaries) = 2
    /\ \E b \in loop_boundaries : b[2] = program_ptr /\ b[1] > 0

\* C18: the header-trimming pass terminates and is idempotent.  Every
\* iteration of _trim_headers that is followed by another has shortened
\* instructions; a pass that has begun comes to its end (under the
\* fairness of SpecConstruct: the loop runs on); and once the pass
\* has ended, _trim_headers applied to its result raises nothing and
\* leaves the result as it is.
C18_TrimTerminates ==
    /\ [][(pc = "trim" /\ pc' = "trim") => Len(instructions') < Len(instructions)]_vars
    /\ (pc = "trim") ~> (pc # "trim")
    /\ []((optimise /\ pc \in {"bounds", "ready"}) =>
            /\ trim_headers(instructions).kind = "trimmed"
            /\ trim_headers(instructions).instructions = instructions
            /\ ~ trim_header_once(instructions).returned)

\* the pass has ended after two headers were removed, and a loop is left
C18_Witness ==
    /\ optimise
    /\ pc = "bounds"
    /\ Len(Tokenized) - Len(instructions) >= 4
    /\ HasLeadingBlock(Tokenized)
    /\ Len(instructions) > 1

\* Program.__init__ has ended
ConstructionEnded == pc \in {"ready", "ParsingError"}

\* what Program.__init__ comes to on the same text with the other value of
\* optimise
OtherConstruction == program_init(Tokenized, ~ optimise)

\* C20: optimise does not change whether construction succeeds.  When
\* Program.__init__ has ended, it has raised ParsingError exactly if it
\* raises ParsingError on the same text with the other value of optimise.
C20_SameSuccess ==
    ConstructionEnded =>
        (pc = "ParsingError" <=> OtherConstruction.kind = "ParsingError")

\* construction with optimise fails after a header was trimmed, and the
\* index carried differs from the one carried without optimise
C20_Witness ==
    /\ pc = "ParsingError"
    /\ optimise
    /\ HasLeadingBlock(Tokenized)
    /\ OtherConstruction.kind = "ParsingError"
    /\ OtherConstruction.char # error.char

\* run_program has ended and nothing has run since
RunEnded == pc \in {"exit", "graceful"} /\ c_pc = "none"

\* the Program constructed from the same text with the other value of
\* optimise
OtherProgram == program_init(Tokenized, ~ optimise)

\* how the run that has ended ended
ThisRun == [end |-> pc, out |-> out, in_pos |-> in_pos]

\* C19: header trimming preserves what a program does.  When a run has
\* ended, the Program constructed from the same text with the other value
\* of optimise runs, on the same input, to the same end (the sentinel, or
\* the end of input), having written the same output and read as much of
\* the input.
C19_SameRun ==
    RunEnded =>
        /\ OtherProgram.kind = "Program"
        /\ run_program(OtherProgram, stdin) = ThisRun

\* the run of a text with a header has ended, with optimise, after reading
\* and writing
C19_Witness ==
    /\ RunEnded
    /\ optimise
    /\ HasLeadingBlock(Tokenized)
    /\ OtherProgram.instructions # instructions
    /\ out # <<>>

\* every token of the instruction_map has at least one character
TokensNonEmpty == \A i \in DOMAIN relex : Len(relex[i][2]) >= 1

\* the token the instruction_map gives the instruction
TokenFor(instr) ==
    relex[CHOOSE i \in DOMAIN relex : relex[i][1] = instr][2]

\* C21: text_to_instrs terminates for every table of from_relex_file, the
\* standard table among them.  Every token of a constructed table has
\* length >= 1; an iteration that matches moves the cursor forward by the
\* length of the token of the one instruction it yields, any other
\* iteration by 1 and yields nothing; the peek that ends the loop does not
\* move the cursor; never more instructions are yielded than characters
\* read; and a scan that has begun comes to its end (under the fairness of
\* SpecRelex: the loop runs on).
C21_LexTerminates ==
    /\ [](pc \in {"relex_ready", "lex", "lexed"} => TokensNonEmpty)
    /\ [][LexMatch =>
            /\ Len(yielded') = Len(yielded) + 1
            /\ pos' = pos + Len(TokenFor(Last(yielded')))
            /\ pos' > pos]_vars
    /\ [][LexSkip => pos' = pos + 1 /\ yielded' = yielded]_vars
    /\ [][LexEnd => pos' = pos /\ pos = Len(text)]_vars
    /\ [](pc \in {"lex", "lexed"} => Len(yielded) <= pos /\ pos <= Len(text))
    /\ (pc = "lex") ~> (pc = "lexed")

\* a scan has ended that matched a token of two characters
C21_Witness ==
    /\ pc = "lexed"
    /\ \E i \in DOMAIN relex : Len(relex[i][2]) = 2
    /\ text = <<"-", "p">>
    /\ yielded = <<"Add">>
    /\ pos = 2

\* a scan has ended that skipped a character and then matched one
C21_WitnessSkip ==
    /\ pc = "lexed"
    /\ text = <<"p", "-">>
    /\ yielded = <<"Subtract">>
    /\ pos = 2

\* The character the Input instruction is about to read: <<>> at the end of
\* the input.
NextChar == IF in_pos < Len(stdin) THEN <<stdin[in_pos + 1]>> ELSE <<>>

\* C22: reading input ends the run gracefully when the input is exhausted or
\* when the character read is NUL (value 0); any other character read is
\* returned as its integer value, which the Input instruction stores in the
\* current cell before going on with the next instruction.
C22_GracefulOnEofOrNul ==
    [][Executing("Input") =>
        IF NextChar = <<>> \/ NextChar = <<0>>
        THEN /\ pc' = "graceful"
             /\ exit_status' = 0
        ELSE /\ pc' = "run"
             /\ cell' = NextChar[1] % CellSize
             /\ in_pos' = in_pos + 1]_vars

\* what the file declares, its directives split at their first space: for
\* every instruction the lines that name it, the first of them and the token
\* on the last of them (no token for an instruction no line names)
Declaration ==
    LET split == SplitLines({" "})
        name == [i \in DirectiveLines |->
                    IF Len(split[i].key) = 1 THEN from_char(split[i].key[1]) ELSE None]
        lines == [instr \in Instruction |-> {i \in DirectiveLines : name[i] = instr}]
    IN [well_formed |-> \A i \in DirectiveLines : WellFormed(split[i]),
        occurrences |-> lines,
        first |-> [instr \in Instruction |->
                      IF lines[instr] = {} THEN 0 ELSE Min(lines[instr])],
        token |-> [instr \in Instruction |->
                      IF lines[instr] = {} THEN <<>> ELSE split[Max(lines[instr])].token]]

\* the file names some instruction on more than one line
Duplicates(declared) ==
    \E instr \in Instruction : Cardinality(declared.occurrences[instr]) > 1

\* the instructions the file names, in the order of the first line that
\* names each, every one with the token of its last line
DeclaredTable(declared) ==
    LET named == {instr \in Instruction : declared.occurrences[instr] # {}}
        rank == [instr \in named |->
                    Cardinality({other \in named : declared.first[other] <= declared.first[instr]})]
    IN [k \in 1 .. Cardinality(named) |->
            LET instr == CHOOSE instr \in named : rank[instr] = k
            IN <<instr, declared.token[instr]>>]

\* the token is not empty and is the text at the position
TokenAt(token, position) ==
    /\ Len(token) >= 1
    /\ position + Len(token) <= Len(text)
    /\ \A k \in 1 .. Len(token) : text[position + k] = token[k]

\* C23: when the lines of a definition name the same canonical character
\* more than once (and every directive is well formed), from_relex_file
\* raises no error for a line and hands on a table that holds, for every
\* instruction, the token of the last line that names it at the position of
\* the first line that names it; the table is not changed afterwards, and
\* the tokenizer matches with it: the instruction it yields is the first of
\* the table whose token is the text at the position.
C23_LastTokenFirstPosition ==
    /\ [][pc = "relex_file" =>
            LET declared == Declaration
            IN declared.well_formed /\ Duplicates(declared) =>
                  /\ pc' = "relex_init"
                  /\ error' = NoError
                  /\ relex' = DeclaredTable(declared)]_vars
    /\ [][pc # "relex_file" => relex' = relex /\ file' = file]_vars
    /\ [][LexMatch =>
            LET matching == {n \in DOMAIN relex : TokenAt(relex[n][2], pos)}
            IN /\ matching # {}
               /\ yielded' = Append(yielded, relex[Min(matching)][1])
               /\ pos' = pos + Len(relex[Min(matching)][2])]_vars

\* a definition naming "+" twice, last with the token "-p", and first before
\* "-": the text "-p" is tokenized as Add
C23_Witness ==
    LET declared == Declaration
    IN /\ pc = "lexed"
       /\ Cardinality(declared.occurrences["Add"]) = 2
       /\ declared.first["Add"] < declared.first["Subtract"]
       /\ Max(declared.occurrences["Add"]) > Max(declared.occurrences["Subtract"])
       /\ declared.token["Add"] = <<"-", "p">>
       /\ text = <<"-", "p">>
       /\ yielded = <<"Add">>

\* the emitted program is about to execute its first statement, no cell of
\* mem written or read yet
CAtStart == c_pc = "run" /\ c_i = 0 /\ c_mem = EmptyDict

\* C24: the emitted program starts in the state the interpreter starts in:
\* its tape pointer is 0 and every cell of mem holds 0 before the first
\* emitted statement executes, so that a leading "while (mem[ptr])" reads 0
\* and its block is not entered.
C24_StartsZeroed ==
    /\ [](CAtStart => c_ptr = 0 /\ c_in = 0 /\ c_out = <<>>)
    /\ [][(CAtStart /\ c_statement = "while (mem[ptr]) {") =>
            /\ c_mem'[c_ptr] = 0
            /\ c_i' = c_block_end(c_code, c_i + 1, 0) + 1
            /\ c_i' # c_i + 1]_vars

====
